---- MODULE Spec2Model ----
(***************************************************************************)
(* nv_monitor: the sampling thread (backend/monitor.py), the anomaly       *)
(* detector (backend/anomaly_detector.py) and the websocket broadcast      *)
(* loop (backend/websocket.py).                                            *)
(*                                                                         *)
(* A device key 'gpu_<i>' is the integer i.  A metrics dict is a function  *)
(* whose DOMAIN is the set of keys present, so `'k' in d` is               *)
(* "k" \in DOMAIN d.  Temperatures, memory sizes, utilisation and power    *)
(* are integers.                                                           *)
(***************************************************************************)
EXTENDS Integers, Sequences, FiniteSets, TLC

(***************************************************************************)
(* Bounds of the model                                                     *)
(***************************************************************************)
\* buffer_size of the monitor (the code's default is 50)
BufferSize == 2
\* window_size of the detector (the code's default is 10)
WindowSize == 5
\* nvmlDeviceGetCount()
DeviceCount == 2
\* iterations of the monitoring loop that are explored
MaxPushes == 4
\* iterations of the start_monitoring loop that are explored
MaxCoordTicks == 3
\* update() calls explored by the detector specification
MaxUpdates == 8
\* threads start() creates
MaxStarts == 2

\* websocket objects that may ever connect
Sockets == {"ws1", "ws2", "ws3"}

(***************************************************************************)
(* Program constants                                                       *)
(***************************************************************************)
temp_warning == 75
temp_critical == 85
util_low == 5
util_normal == 80
util_std_warning == 15
power_std_warning == 20
\* the memory ratios 0.8, 0.9 and 0.95 in percent
memory_normal == 80
memory_high == 90
memory_critical == 95
EccInterval == 60
PowerInterval == 300
DriverInterval == 86400
\* time.time() when the service starts (any value >= DriverInterval: the
\* three _last_*_check fields start at 0 and the epoch clock is far larger)
StartTime == 100000

\* the count the ECC query reports for a device with errors
EccCount == 2

\* Python's None
None == "None"

Devices == 0 .. (DeviceCount - 1)

(***************************************************************************)
(* Sequence helpers                                                        *)
(***************************************************************************)
Range(s) == { s[i] : i \in 1 .. Len(s) }

Min(a, b) == IF a <= b THEN a ELSE b

\* the last n elements of s
LastN(s, n) == SubSeq(s, Len(s) - n + 1, Len(s))

RECURSIVE SumSeq(_)
SumSeq(s) == IF s = <<>> THEN 0 ELSE Head(s) + SumSeq(Tail(s))

\* s without its first occurrence of x (list.remove)
RECURSIVE RemoveFirst(_, _)
RemoveFirst(s, x) ==
    IF s = <<>> THEN <<>>
    ELSE IF Head(s) = x THEN Tail(s)
    ELSE <<Head(s)>> \o RemoveFirst(Tail(s), x)

(***************************************************************************)
(* queue.Queue(maxsize = buffer_size)                                      *)
(***************************************************************************)
\* Queue.full(): 0 < maxsize <= qsize
QueueFull(q) == 0 < BufferSize /\ BufferSize <= Len(q)

\* Queue.get() returns when the queue is not empty, and blocks until then
QueueCanGet(q) == Len(q) > 0

\* a get() that takes the newest entry
QueueGetNewest(q) == SubSeq(q, 1, Len(q) - 1)

\* the queue after Queue.get(): popleft
QueueGet(q) == Tail(q)

\* Queue.put() returns when maxsize <= 0 or qsize < maxsize, and blocks until then
QueueCanPut(q) == BufferSize <= 0 \/ Len(q) < BufferSize

\* the queue after Queue.put(item): append
QueuePut(q, item) == Append(q, item)

\* a read that empties the queue
QueueAfterDrain(q) == <<>>

\* the queue after get_current_data(): list(self.data_queue.queue) copies the
\* deque and leaves it as it is
QueueAfterRead(q) == q

\* the list get_current_data() returns
get_current_data(q) == q

(***************************************************************************)
(* GPUAnomalyDetector                                                      *)
(***************************************************************************)
\* update() that evicts the newest entry instead of the oldest
update_pop_last(history, gpu_id, metrics) ==
    LET old == IF gpu_id \in DOMAIN history THEN history[gpu_id] ELSE <<>>
        app == Append(old, metrics)
        new == IF Len(app) > WindowSize THEN SubSeq(app, 1, Len(app) - 1) ELSE app
    IN  [g \in (DOMAIN history) \cup {gpu_id} |-> IF g = gpu_id THEN new ELSE history[g]]

\* update() that puts the sample in front of the window
update_prepend(history, gpu_id, metrics) ==
    LET old == IF gpu_id \in DOMAIN history THEN history[gpu_id] ELSE <<>>
        app == <<metrics>> \o old
        new == IF Len(app) > WindowSize THEN Tail(app) ELSE app
    IN  [g \in (DOMAIN history) \cup {gpu_id} |-> IF g = gpu_id THEN new ELSE history[g]]

\* self.history after update(gpu_id, metrics)
update(history, gpu_id, metrics) ==
    LET old == IF gpu_id \in DOMAIN history THEN history[gpu_id] ELSE <<>>
        app == Append(old, metrics)
        new == IF Len(app) > WindowSize THEN Tail(app) ELSE app
    IN  [g \in (DOMAIN history) \cup {gpu_id} |-> IF g = gpu_id THEN new ELSE history[g]]

\* np.std(xs) >= t for integers xs and t >= 0 (population standard deviation):
\* sqrt(sum((x - mean)^2) / n) >= t  <=>  n * sum(x^2) - sum(x)^2 >= t^2 * n^2
VarNum(xs) ==
    Len(xs) * SumSeq([i \in 1 .. Len(xs) |-> xs[i] * xs[i]]) - SumSeq(xs) * SumSeq(xs)

StdAtLeast(xs, t) == VarNum(xs) >= t * t * Len(xs) * Len(xs)

\* used / total >= pct / 100, for total > 0
RatioAtLeast(used, total, pct) == used * 100 >= pct * total

\* used / total > pct / 100, for total > 0
RatioAbove(used, total, pct) == used * 100 > pct * total

\* the outcome of a call that raised
Raised(exc) == [status |-> "RAISED", reason |-> <<[tag |-> exc]>>]

\* the keys detect() reads with latest[...] before it divides
FastKeys == {"temperature", "memory_used", "memory_total"}

\* `gpu_id not in self.history or not self.history[gpu_id]`
NoWindow(history, gpu_id) == gpu_id \notin DOMAIN history \/ history[gpu_id] = <<>>

\* a power check that never short-circuits
PowerErrorIgnored(latest) == FALSE

\* `'power_error' in latest and latest['power_error']`
PowerErrorSet(latest) == "power_error" \in DOMAIN latest /\ latest["power_error"] # ""

\* a temperature comparison that leaves the threshold itself out
TempAbove(temperature, threshold) == temperature > threshold

\* `latest['temperature'] >= threshold`
TempAtLeast(temperature, threshold) == temperature >= threshold

\* a detect() that consumes the oldest sample of the window it classified
HistoryAfterDetectPop(history, gpu_id) ==
    [g \in DOMAIN history |->
        IF g = gpu_id /\ history[g] # <<>> THEN Tail(history[g]) ELSE history[g]]

\* a detect() on a history that creates the missing window (a defaultdict)
HistoryAfterDetectDefault(history, gpu_id) ==
    [g \in (DOMAIN history) \cup {gpu_id} |->
        IF g \in DOMAIN history THEN history[g] ELSE <<>>]

\* self.history after detect(gpu_id): detect() only reads it
HistoryAfterDetect(history, gpu_id) == history

\* detect(gpu_id): [status, reason], the reason as the list of its parts
\* (" | ".join is left unapplied), or Raised(exception)
detect(history, gpu_id) ==
    IF NoWindow(history, gpu_id)
    THEN [status |-> "CRITICAL", reason |-> <<[tag |-> "no_data"]>>]
    ELSE
    LET h == history[gpu_id]
        latest == h[Len(h)]
        has(k) == k \in DOMAIN latest
    IN
    IF has("nvidia_smi_ok") /\ ~latest["nvidia_smi_ok"]
    THEN [status |-> "CRITICAL", reason |-> <<[tag |-> "nvidia_smi"]>>]
    ELSE IF PowerErrorSet(latest)
    THEN [status |-> "CRITICAL",
          reason |-> <<[tag |-> "power_error", text |-> latest["power_error"]]>>]
    ELSE IF ~(FastKeys \subseteq DOMAIN latest) THEN Raised("KeyError")
    ELSE IF latest["memory_total"] = 0 THEN Raised("ZeroDivisionError")
    ELSE
    LET used == latest["memory_used"]
        total == latest["memory_total"]
        temp == latest["temperature"]
        critical_reasons ==
            (IF has("ecc_errors") /\ latest["ecc_errors"] > 0
             THEN <<[tag |-> "ecc_errors", n |-> latest["ecc_errors"]]>> ELSE <<>>)
            \o (IF TempAtLeast(temp, temp_critical)
                THEN <<[tag |-> "temp_critical", n |-> temp]>> ELSE <<>>)
            \o (IF RatioAtLeast(used, total, memory_critical)
                THEN <<[tag |-> "memory_critical", used |-> used, total |-> total]>>
                ELSE <<>>)
    IN
    IF critical_reasons # <<>>
    THEN [status |-> "CRITICAL", reason |-> critical_reasons]
    ELSE IF Len(h) >= 3 /\ \E i \in 1 .. Len(h) :
                ~({"utilization_gpu", "power_draw"} \subseteq DOMAIN h[i])
    THEN Raised("KeyError")
    ELSE
    LET utils == [i \in 1 .. Len(h) |-> h[i]["utilization_gpu"]]
        powers == [i \in 1 .. Len(h) |-> h[i]["power_draw"]]
        warnings ==
            (IF Len(h) >= 3 /\ StdAtLeast(utils, util_std_warning)
             THEN <<[tag |-> "util_std", var |-> VarNum(utils), n |-> Len(h)]>>
             ELSE <<>>)
            \o (IF Len(h) >= 3 /\ StdAtLeast(powers, power_std_warning)
                THEN <<[tag |-> "power_std", var |-> VarNum(powers), n |-> Len(h)]>>
                ELSE <<>>)
            \o (IF TempAtLeast(temp, temp_warning)
                THEN <<[tag |-> "temp_warning", n |-> temp]>> ELSE <<>>)
            \o (IF RatioAtLeast(used, total, memory_high)
                THEN <<[tag |-> "memory_high", used |-> used, total |-> total]>>
                ELSE <<>>)
    IN
    IF warnings # <<>>
    THEN [status |-> "FLUCTUATING", reason |-> warnings]
    ELSE IF ~has("utilization_gpu") THEN Raised("KeyError")
    ELSE IF has("driver_version") /\ latest["driver_version"] = None
    THEN Raised("AttributeError")
    ELSE
    LET util == latest["utilization_gpu"]
        status_desc ==
            <<[tag |-> IF util < util_low THEN "low_load"
                       ELSE IF util > util_normal THEN "high_load"
                       ELSE "normal_load"]>>
            \o (IF RatioAbove(used, total, memory_normal)
                THEN <<[tag |-> "high_memory"]>> ELSE <<>>)
            \o (IF has("driver_version")
                THEN <<[tag |-> "driver", text |-> latest["driver_version"]]>>
                ELSE <<>>)
    IN  [status |-> "NORMAL", reason |-> status_desc]

(***************************************************************************)
(* GPUMonitor.get_metrics                                                  *)
(***************************************************************************)
\* What pynvml and the nvidia-smi commands answer during one get_metrics():
\*   nread    how many devices are read before a pynvml call raises
\*            (DeviceCount: none raises)
\*   reading  device -> the dict _get_basic_metrics returns (the fields the
\*            backend reads; name, memory_free and utilization_memory are
\*            carried along untouched and left out)
\*   smi_ok   device -> what _check_nvidia_smi_hang returns in its iteration
\*   ecc      what _check_ecc_errors returns: line index -> count
\*   power    what _check_power_errors returns ("" for None)
\*   driver   what _get_driver_version returns (None or the version)
NormalReading ==
    [memory_used |-> 10, memory_total |-> 100, utilization_gpu |-> 50,
     temperature |-> 70, power_draw |-> 100]

\* d with d[k] = v
SetKey(d, k, v) == [x \in (DOMAIN d) \cup {k} |-> IF x = k THEN v ELSE d[x]]

\* One iteration of `for i in range(self.device_count)`, for a device whose
\* pynvml reads succeed.  st is the metrics dict being built together with the
\* monitor's fields the loop reads and writes.
MetricsIteration(st, i, current_time, inp) ==
    LET ecc_due == current_time - st.last_ecc_check >= EccInterval
        power_due == current_time - st.last_power_check >= PowerInterval
        driver_due == current_time - st.last_driver_check >= DriverInterval
        m0 == inp.reading[i]
        m1 == IF ecc_due /\ i \in DOMAIN inp.ecc
              THEN SetKey(m0, "ecc_errors", inp.ecc[i]) ELSE m0
        m2 == IF power_due /\ inp.power # ""
              THEN SetKey(m1, "power_error", inp.power) ELSE m1
        dv == IF driver_due THEN inp.driver ELSE st.driver_version
        m3 == SetKey(SetKey(m2, "driver_version", dv), "nvidia_smi_ok", inp.smi_ok[i])
    IN  [metrics |-> SetKey(st.metrics, i, m3),
         last_ecc_check |-> IF ecc_due THEN current_time ELSE st.last_ecc_check,
         last_power_check |-> IF power_due THEN current_time ELSE st.last_power_check,
         last_driver_check |-> IF driver_due THEN current_time ELSE st.last_driver_check,
         driver_version |-> dv]

\* the for loop from device i on; a pynvml call that raises ends the loop
\* (the except clause of get_metrics logs and the dict built so far is returned)
RECURSIVE MetricsLoop(_, _, _, _)
MetricsLoop(st, i, current_time, inp) ==
    IF i >= DeviceCount \/ i >= inp.nread THEN st
    ELSE MetricsLoop(MetricsIteration(st, i, current_time, inp), i + 1, current_time, inp)

\* get_metrics(): the returned dict and the monitor's fields afterwards
get_metrics(monitor, current_time, inp) ==
    MetricsLoop([metrics |-> <<>>,
                 last_ecc_check |-> monitor.last_ecc_check,
                 last_power_check |-> monitor.last_power_check,
                 last_driver_check |-> monitor.last_driver_check,
                 driver_version |-> monitor.driver_version],
                0, current_time, inp)

(***************************************************************************)
(* State                                                                   *)
(***************************************************************************)
VARIABLES
    \* BaseMonitor / GPUMonitor
    is_running,          \* self.is_running
    data_queue,          \* self.data_queue: Seq of [ts, metrics]
    monitor,             \* driver_version and the three _last_*_check fields
    s_pc,                \* where the _monitoring_loop thread is
    s_metrics,           \* the local `metrics` of _monitoring_loop
    now,                 \* the clock, in seconds
    \* WebSocketManager
    active_connections,  \* self.active_connections
    c_pc,                \* where the start_monitoring task is
    data,                \* the dict broadcast() was called with
    bc_idx,              \* index of the list iterator of broadcast()
    connection,          \* the loop variable of broadcast()
    \* GPUAnomalyDetector
    history,             \* self.history: gpu_id -> window
    \* history of the run, for the properties
    pushed,              \* every (timestamp, metrics) put, in order
    fresh,               \* a put happened since the last get_current_data()
    read_since_full,     \* get_current_data() ran since the thread's last full()
    c_ticks,             \* iterations of start_monitoring begun
    accepted,            \* websockets that have connected
    attempts,            \* send_json calls of the current broadcast: [to, ok, env]
    stayed,              \* websockets in the list throughout the current broadcast
    tick_updates,        \* gpu_id -> update() calls in the current broadcast
    history_ts,          \* gpu_id -> timestamps of the window's samples
    upd_log,             \* gpu_id -> every sample passed to update(), in order
    last_detect,         \* what the last detect() call of the detector returned
    tick_log,            \* every get_metrics() call: [time, inp, before], in order
    \* the caller of start() and stop(), and the threads
    l_pc,                \* where the caller of stop() is
    live,                \* threads that run _monitoring_loop and have not ended
    started,             \* threads start() has created
    stop_mark,           \* Len(pushed) when stop() last returned; -1 once a
                         \* thread was created after that, or before any stop()
    shutdown             \* shutdown_event() has run

vars == <<is_running, data_queue, monitor, s_pc, s_metrics, now,
          active_connections, c_pc, data, bc_idx, connection, history,
          pushed, fresh, read_since_full, c_ticks, accepted, attempts, stayed, tick_updates,
          history_ts, upd_log, last_detect, tick_log, l_pc, live, started, stop_mark,
          shutdown>>

sampler_vars == <<is_running, data_queue, monitor, s_pc, s_metrics, now, pushed, fresh, read_since_full>>
detector_vars == <<history, history_ts, upd_log, last_detect>>
coord_vars == <<c_pc, data, bc_idx, connection, c_ticks, attempts, stayed, tick_updates>>
socket_vars == <<active_connections, accepted>>
thread_vars == <<l_pc, live, started, stop_mark>>

NoData == [timestamp |-> 0, metrics |-> <<>>, status |-> <<>>]
\* last_detect.again: the call before it was a detect() of the same device
NoDetect == [gpu_id |-> -1, result |-> Raised("none"), again |-> FALSE]

\* GPUMonitor.__init__ and WebSocketManager.__init__; dv is what the first
\* _get_driver_version() returned
InitWith(dv) ==
    /\ is_running = FALSE
    /\ data_queue = <<>>
    /\ monitor = [driver_version |-> dv, last_ecc_check |-> 0,
                  last_power_check |-> 0, last_driver_check |-> 0]
    /\ s_pc = "off"
    /\ s_metrics = <<>>
    /\ now = StartTime
    /\ active_connections = <<>>
    /\ c_pc = "startup"
    /\ data = NoData
    /\ bc_idx = 0
    /\ connection = None
    /\ history = <<>>
    /\ pushed = <<>>
    /\ fresh = FALSE
    /\ read_since_full = FALSE
    /\ c_ticks = 0
    /\ accepted = {}
    /\ attempts = <<>>
    /\ stayed = {}
    /\ tick_updates = <<>>
    /\ history_ts = <<>>
    /\ upd_log = <<>>
    /\ last_detect = NoDetect
    /\ tick_log = <<>>
    /\ l_pc = "idle"
    /\ live = 0
    /\ started = 0
    /\ stop_mark = -1
    /\ shutdown = FALSE

(***************************************************************************)
(* BaseMonitor._monitoring_loop, one step per statement                    *)
(***************************************************************************)
\* while self.is_running
SamplerWhile ==
    /\ s_pc = "while"
    /\ ~is_running \/ Len(tick_log) < MaxPushes
    /\ s_pc' = IF is_running THEN "metrics" ELSE "done"
    /\ live' = IF is_running THEN live ELSE live - 1
    /\ UNCHANGED <<is_running, data_queue, monitor, s_metrics, now, pushed, fresh, read_since_full>>
    /\ UNCHANGED <<tick_log, l_pc, started, stop_mark>>
    /\ UNCHANGED <<detector_vars, coord_vars, socket_vars>>
    /\ UNCHANGED shutdown

\* a get_metrics() that lets the exception of a failed read out
GetMetricsRaisesOnFailure(inp) == inp.nread < DeviceCount

\* whether an exception leaves get_metrics(): its try covers the whole loop
\* and its except clause logs and falls through to `return metrics`
GetMetricsRaises(inp) == FALSE

\* metrics = self.get_metrics(); an exception would be logged by the except
\* clause of _monitoring_loop, which goes on to time.sleep(1)
SamplerGetMetrics(inp) ==
    /\ s_pc = "metrics"
    /\ LET r == get_metrics(monitor, now, inp)
       IN  /\ monitor' = [driver_version |-> r.driver_version,
                          last_ecc_check |-> r.last_ecc_check,
                          last_power_check |-> r.last_power_check,
                          last_driver_check |-> r.last_driver_check]
           /\ IF GetMetricsRaises(inp)
              THEN s_metrics' = s_metrics /\ s_pc' = "sleep"
              ELSE s_metrics' = r.metrics /\ s_pc' = "full"
    /\ tick_log' = Append(tick_log, [time |-> now, inp |-> inp, before |-> monitor])
    /\ UNCHANGED thread_vars
    /\ UNCHANGED <<is_running, data_queue, now, pushed, fresh, read_since_full>>
    /\ UNCHANGED <<detector_vars, coord_vars, socket_vars>>
    /\ UNCHANGED shutdown

\* if self.data_queue.full()
SamplerFull ==
    /\ s_pc = "full"
    /\ s_pc' = IF QueueFull(data_queue) THEN "get" ELSE "put"
    /\ read_since_full' = FALSE
    /\ UNCHANGED <<is_running, data_queue, monitor, s_metrics, now, pushed, fresh>>
    /\ UNCHANGED <<detector_vars, coord_vars, socket_vars>>
    /\ UNCHANGED <<tick_log, thread_vars>>
    /\ UNCHANGED shutdown

\* self.data_queue.get()
SamplerGet ==
    /\ s_pc = "get"
    /\ QueueCanGet(data_queue)
    /\ data_queue' = QueueGet(data_queue)
    /\ s_pc' = "put"
    /\ UNCHANGED <<is_running, monitor, s_metrics, now, pushed, fresh, read_since_full>>
    /\ UNCHANGED <<detector_vars, coord_vars, socket_vars>>
    /\ UNCHANGED <<tick_log, thread_vars>>
    /\ UNCHANGED shutdown

\* self.data_queue.put((datetime.now(), metrics))
SamplerPut ==
    /\ s_pc = "put"
    /\ QueueCanPut(data_queue)
    /\ LET item == [ts |-> now, metrics |-> s_metrics]
       IN  /\ data_queue' = QueuePut(data_queue, item)
           /\ pushed' = Append(pushed, item)
    /\ fresh' = TRUE
    /\ s_pc' = "sleep"
    /\ UNCHANGED <<is_running, monitor, s_metrics, now, read_since_full>>
    /\ UNCHANGED <<detector_vars, coord_vars, socket_vars>>
    /\ UNCHANGED <<tick_log, thread_vars>>
    /\ UNCHANGED shutdown

\* time.sleep(1), which takes dt >= 1 seconds
SamplerSleep(dt) ==
    /\ s_pc = "sleep"
    /\ now' = now + dt
    /\ s_pc' = "while"
    /\ UNCHANGED <<is_running, data_queue, monitor, s_metrics, pushed, fresh, read_since_full>>
    /\ UNCHANGED <<detector_vars, coord_vars, socket_vars>>
    /\ UNCHANGED <<tick_log, thread_vars>>
    /\ UNCHANGED shutdown

(***************************************************************************)
(* WebSocketManager                                                        *)
(***************************************************************************)
\* the keys of a dict in insertion order; get_metrics inserts 'gpu_0', 'gpu_1', ...
RECURSIVE KeysInOrder(_)
KeysInOrder(keys) ==
    IF keys = {} THEN <<>>
    ELSE LET k == CHOOSE x \in keys : \A y \in keys : x <= y
         IN  <<k>> \o KeysInOrder(keys \ {k})

\* `for gpu_id, gpu_metrics in metrics.items()` of broadcast(): update, detect
\* and status_info[gpu_id] = ... for the devices of todo, in order; a detect()
\* that raises ends the loop.  acc is [history, status_info, done, raised].
RECURSIVE GpuLoop(_, _, _)
GpuLoop(acc, metrics, todo) ==
    IF todo = <<>> THEN acc
    ELSE LET gpu_id == Head(todo)
             h1 == update(acc.history, gpu_id, metrics[gpu_id])
             r == detect(h1, gpu_id)
         IN  IF r.status = "RAISED"
             THEN [acc EXCEPT !.history = h1, !.done = Append(@, gpu_id),
                              !.raised = TRUE]
             ELSE GpuLoop([acc EXCEPT !.history = h1, !.done = Append(@, gpu_id),
                                      !.status_info = SetKey(@, gpu_id, r)],
                          metrics, Tail(todo))

\* `if data:` of start_monitoring, taken only when something new was put
HasNewData(d) == d # <<>> /\ fresh

\* `if data:` of start_monitoring
HasData(d) == d # <<>>

\* @app.on_event("startup"): pynvml.nvmlInit() and create_task(start_monitoring)
StartupEvent ==
    /\ c_pc = "startup"
    /\ \E nvml_ok \in BOOLEAN : c_pc' = IF nvml_ok THEN "start" ELSE "none"
    /\ UNCHANGED <<data, bc_idx, connection, c_ticks, attempts, stayed, tick_updates>>
    /\ UNCHANGED <<sampler_vars, detector_vars, socket_vars>>
    /\ UNCHANGED <<tick_log, thread_vars>>
    /\ UNCHANGED shutdown

\* GPUMonitor.start and BaseMonitor.start: when nvmlInit() does not raise
\* and the monitor is not running, a new thread runs _monitoring_loop
MonitorStart(nvml_ok) ==
    IF nvml_ok /\ ~is_running
    THEN /\ is_running' = TRUE
         /\ s_pc' = "while"
         /\ live' = live + 1
         /\ started' = started + 1
         /\ stop_mark' = -1
    ELSE UNCHANGED <<is_running, s_pc, live, started, stop_mark>>

\* self.gpu_monitor.start() of start_monitoring
StartMonitoring ==
    /\ c_pc = "start"
    /\ \E nvml_ok \in BOOLEAN : MonitorStart(nvml_ok)
    /\ c_pc' = "tick"
    /\ UNCHANGED <<tick_log, l_pc>>
    /\ UNCHANGED <<data_queue, monitor, s_metrics, now, pushed, fresh, read_since_full>>
    /\ UNCHANGED <<data, bc_idx, connection, c_ticks, attempts, stayed, tick_updates>>
    /\ UNCHANGED <<detector_vars, socket_vars>>
    /\ UNCHANGED shutdown

\* data = self.gpu_monitor.get_current_data(); if data: ... broadcast({...})
\* up to the for statement of broadcast()
CoordTick ==
    /\ c_pc = "tick"
    /\ LET d == get_current_data(data_queue)
       IN  IF HasData(d)
           THEN LET latest_data == d[Len(d)]
                IN  /\ data' = [timestamp |-> latest_data.ts,
                                metrics |-> latest_data.metrics,
                                status |-> <<>>]
                    /\ c_pc' = "iter"
                    /\ stayed' = Range(active_connections)
                    /\ tick_updates' = [g \in DOMAIN latest_data.metrics |-> 0]
           ELSE /\ data' = NoData
                /\ c_pc' = "sleep"
                /\ stayed' = {}
                /\ tick_updates' = <<>>
    /\ data_queue' = QueueAfterRead(data_queue)
    /\ bc_idx' = 0
    /\ attempts' = <<>>
    /\ fresh' = FALSE
    /\ read_since_full' = TRUE
    /\ c_ticks' = c_ticks + 1
    /\ UNCHANGED <<is_running, monitor, s_pc, s_metrics, now, pushed, connection>>
    /\ UNCHANGED <<detector_vars, socket_vars>>
    /\ UNCHANGED <<tick_log, thread_vars>>
    /\ UNCHANGED shutdown

\* the list iterator's next step and the body of the for loop of broadcast()
\* up to `await connection.send_json(data)`
BroadcastIter ==
    /\ c_pc = "iter"
    /\ IF bc_idx < Len(active_connections)
       THEN LET r == GpuLoop([history |-> history, status_info |-> <<>>,
                              done |-> <<>>, raised |-> FALSE],
                             data.metrics, KeysInOrder(DOMAIN data.metrics))
                done == Range(r.done)
            IN  /\ connection' = active_connections[bc_idx + 1]
                /\ bc_idx' = bc_idx + 1
                /\ history' = r.history
                /\ IF r.raised
                   THEN c_pc' = "iter" /\ data' = data
                   ELSE c_pc' = "send" /\ data' = [data EXCEPT !.status = r.status_info]
                /\ tick_updates' =
                       [g \in DOMAIN tick_updates |->
                           tick_updates[g] + (IF g \in done THEN 1 ELSE 0)]
                /\ history_ts' =
                       [g \in (DOMAIN history_ts) \cup done |->
                           IF g \in done
                           THEN update(history_ts, g, data.timestamp)[g]
                           ELSE history_ts[g]]
                /\ upd_log' =
                       [g \in (DOMAIN upd_log) \cup done |->
                           IF g \in done
                           THEN Append(IF g \in DOMAIN upd_log THEN upd_log[g] ELSE <<>>,
                                       data.metrics[g])
                           ELSE upd_log[g]]
       ELSE /\ c_pc' = "sleep"
            /\ UNCHANGED <<connection, bc_idx, history, data, tick_updates,
                           history_ts, upd_log>>
    /\ UNCHANGED <<c_ticks, attempts, stayed, last_detect>>
    /\ UNCHANGED <<sampler_vars, socket_vars>>
    /\ UNCHANGED <<tick_log, thread_vars>>
    /\ UNCHANGED shutdown

\* `await connection.send_json(data)` returns (ok) or raises (~ok); the except
\* clause of broadcast() logs and the loop goes on
SendJson(ok) ==
    /\ c_pc = "send"
    /\ attempts' = Append(attempts, [to |-> connection, ok |-> ok, env |-> data])
    /\ c_pc' = "iter"
    /\ UNCHANGED <<data, bc_idx, connection, c_ticks, stayed, tick_updates>>
    /\ UNCHANGED <<sampler_vars, detector_vars, socket_vars>>
    /\ UNCHANGED <<tick_log, thread_vars>>
    /\ UNCHANGED shutdown

\* `await asyncio.sleep(1)` returns
CoordSleep ==
    /\ c_pc = "sleep"
    /\ c_ticks < MaxCoordTicks
    /\ c_pc' = "tick"
    /\ UNCHANGED <<data, bc_idx, connection, c_ticks, attempts, stayed, tick_updates>>
    /\ UNCHANGED <<sampler_vars, detector_vars, socket_vars>>
    /\ UNCHANGED <<tick_log, thread_vars>>
    /\ UNCHANGED shutdown

\* The event loop runs another coroutine only while start_monitoring is
\* suspended in an await (or does not exist).
CoordSuspended == c_pc \in {"send", "sleep", "none"}

\* websocket_endpoint: manager.connect(websocket) for a new websocket object
Connect(ws) ==
    /\ CoordSuspended
    /\ ws \notin accepted
    /\ active_connections' = Append(active_connections, ws)
    /\ accepted' = accepted \cup {ws}
    /\ UNCHANGED <<sampler_vars, detector_vars, coord_vars>>
    /\ UNCHANGED <<tick_log, thread_vars>>
    /\ UNCHANGED shutdown

\* websocket_endpoint: receive_text() raised, manager.disconnect(websocket)
Disconnect(ws) ==
    /\ CoordSuspended
    /\ ws \in Range(active_connections)
    /\ active_connections' = RemoveFirst(active_connections, ws)
    /\ stayed' = stayed \ {ws}
    /\ UNCHANGED accepted
    /\ UNCHANGED <<c_pc, data, bc_idx, connection, c_ticks, attempts, tick_updates>>
    /\ UNCHANGED <<sampler_vars, detector_vars>>
    /\ UNCHANGED <<tick_log, thread_vars>>
    /\ UNCHANGED shutdown

(***************************************************************************)
(* The service: sampler thread, broadcast task and websocket endpoints     *)
(***************************************************************************)
DriverVersions == {None, "535"}

\* what pynvml and nvidia-smi answer when nread devices are read, no check
\* reports an error and the driver query returns dv
Answers(nread, dv) ==
    [nread |-> nread,
     reading |-> [d \in Devices |-> NormalReading],
     smi_ok |-> [d \in Devices |-> TRUE],
     ecc |-> [d \in Devices |-> 0],
     power |-> "",
     driver |-> dv]

\* the answers explored for the running service: every device is read, or
\* the first pynvml call raises
PipelineInputs == { Answers(n, "535") : n \in {0, DeviceCount} }

\* the websockets that connect to the running service
PipelineSockets == {"ws1"}

Init == \E dv \in DriverVersions : InitWith(dv)

Next ==
    \/ StartupEvent
    \/ StartMonitoring
    \/ SamplerWhile
    \/ \E inp \in PipelineInputs : SamplerGetMetrics(inp)
    \/ SamplerFull
    \/ SamplerGet
    \/ SamplerPut
    \/ SamplerSleep(1)
    \/ CoordTick
    \/ BroadcastIter
    \/ \E ok \in BOOLEAN : SendJson(ok)
    \/ CoordSleep
    \/ \E ws \in PipelineSockets : Connect(ws)
    \/ \E ws \in PipelineSockets : Disconnect(ws)

Spec == Init /\ [][Next]_vars

(***************************************************************************)
(* Properties of the sample queue                                          *)
(***************************************************************************)
\* C1: the queue never holds more than buffer_size snapshots, and between
\* the iterations of the monitoring loop (the thread is not between its
\* full() and its put()) it holds the last min(n, buffer_size) of the n
\* snapshots put so far, in the order they were put.
C1_QueueHoldsLatest ==
    /\ Len(data_queue) <= BufferSize
    /\ s_pc \notin {"get", "put"} =>
          data_queue = LastN(pushed, Min(Len(pushed), BufferSize))

\* two puts arrived at a full queue
C1_Witness ==
    /\ s_pc = "sleep"
    /\ Len(pushed) = BufferSize + 2
    /\ data_queue = LastN(pushed, BufferSize)

\* C2: the monitoring thread is never blocked in the queue: whenever it is
\* about to call get() the queue is not empty, and whenever it is about to
\* call put() the queue is not full, whatever get_current_data() calls ran
\* in between.
C2_PushNeverBlocks ==
    /\ s_pc = "get" => QueueCanGet(data_queue)
    /\ s_pc = "put" => QueueCanPut(data_queue)

\* get_current_data() ran between the thread's full() and its get()
C2_Witness == s_pc = "get" /\ read_since_full /\ QueueCanGet(data_queue)

\* C3 as claimed: right after the coordinator's read the queue is empty.
C3_ReadDrains == [][CoordTick => data_queue' = <<>>]_vars

\* C3 as the code has it: the coordinator's read leaves the queue as it is,
\* and the snapshot it takes is the newest one queued.
C3_ReadKeepsQueue ==
    [][CoordTick =>
         /\ data_queue' = data_queue
         /\ data_queue # <<>> =>
               /\ data'.timestamp = data_queue[Len(data_queue)].ts
               /\ data'.metrics = data_queue[Len(data_queue)].metrics]_vars

\* a read has returned a snapshot that an earlier read returned already
C3_Witness ==
    /\ c_pc = "iter"
    /\ bc_idx = 0
    /\ data_queue # <<>>
    /\ \E g \in DOMAIN history_ts : \E i \in 1 .. Len(history_ts[g]) :
          history_ts[g][i] = data.timestamp

\* C4 as claimed: a tick with no put since the previous read is skipped.
C4_SkipsWithoutNewSnapshot ==
    [][(CoordTick /\ ~fresh) => (c_pc' = "sleep" /\ history' = history)]_vars

\* C4 as the code has it: a tick is skipped exactly when the queue is empty,
\* and a skipped tick sends nothing and updates no window; with a non-empty
\* queue the newest snapshot is broadcast, whether it is new or not.
C4_SkipsOnlyEmptyQueue ==
    [][CoordTick =>
         IF data_queue = <<>>
         THEN c_pc' = "sleep" /\ history' = history /\ attempts' = <<>>
         ELSE c_pc' = "iter" /\ data'.timestamp = data_queue[Len(data_queue)].ts]_vars

\* a tick was skipped
C4_Witness ==
    /\ c_ticks >= 1
    /\ c_pc = "sleep"
    /\ data = NoData
    /\ data_queue = <<>>

(***************************************************************************)
(* The broadcast and the websocket endpoints, with one snapshot queued.    *)
(* The state it starts from is one the service reaches: the thread has put *)
(* its first snapshot (every device read, nothing wrong) after the first   *)
(* iteration of start_monitoring found the queue empty, and no websocket   *)
(* has connected yet.                                                      *)
(***************************************************************************)
FirstMetrics ==
    get_metrics([driver_version |-> "535", last_ecc_check |-> 0,
                 last_power_check |-> 0, last_driver_check |-> 0],
                StartTime, Answers(DeviceCount, "535"))

InitFanout ==
    /\ is_running = TRUE
    /\ data_queue = <<[ts |-> StartTime, metrics |-> FirstMetrics.metrics]>>
    /\ monitor = [driver_version |-> FirstMetrics.driver_version,
                  last_ecc_check |-> FirstMetrics.last_ecc_check,
                  last_power_check |-> FirstMetrics.last_power_check,
                  last_driver_check |-> FirstMetrics.last_driver_check]
    /\ s_pc = "sleep"
    /\ s_metrics = FirstMetrics.metrics
    /\ now = StartTime
    /\ active_connections = <<>>
    /\ c_pc = "sleep"
    /\ data = NoData
    /\ bc_idx = 0
    /\ connection = None
    /\ history = <<>>
    /\ pushed = data_queue
    /\ fresh = TRUE
    /\ read_since_full = FALSE
    /\ c_ticks = 1
    /\ accepted = {}
    /\ attempts = <<>>
    /\ stayed = {}
    /\ tick_updates = <<>>
    /\ history_ts = <<>>
    /\ upd_log = <<>>
    /\ last_detect = NoDetect
    /\ tick_log = <<[time |-> StartTime, inp |-> Answers(DeviceCount, "535"),
                     before |-> [driver_version |-> "535", last_ecc_check |-> 0,
                                 last_power_check |-> 0, last_driver_check |-> 0]]>>
    /\ l_pc = "idle"
    /\ live = 1
    /\ started = 1
    /\ stop_mark = -1
    /\ shutdown = FALSE

NextFanout ==
    \/ CoordSleep
    \/ CoordTick
    \/ BroadcastIter
    \/ \E ok \in BOOLEAN : SendJson(ok)
    \/ \E ws \in Sockets : Connect(ws)
    \/ \E ws \in Sockets : Disconnect(ws)

SpecFanout == InitFanout /\ [][NextFanout]_vars

\* broadcast() has returned from a call that start_monitoring made
BroadcastDone == c_pc = "sleep" /\ data # NoData

\* the send_json calls of the current broadcast that were made on ws
AttemptsOn(ws) == { i \in 1 .. Len(attempts) : attempts[i].to = ws }

\* C6: when a broadcast is over, every device of its snapshot has had
\* exactly one update() of its window, however many websockets are connected.
C6_OneUpdatePerDevice ==
    BroadcastDone => \A g \in DOMAIN data.metrics : tick_updates[g] = 1

\* C7: a websocket whose send_json raised in the current broadcast is no
\* longer in active_connections.
C7_FailedSubscriberRemoved ==
    \A i \in 1 .. Len(attempts) :
        ~attempts[i].ok => attempts[i].to \notin Range(active_connections)

\* C8: when a broadcast in which a send_json raised is over, every other
\* websocket that was in active_connections during the whole broadcast has
\* had a send_json call.
C8_FailureDoesNotAbort ==
    BroadcastDone =>
        \A i \in 1 .. Len(attempts) :
            ~attempts[i].ok =>
                \A ws \in stayed \ {attempts[i].to} : AttemptsOn(ws) # {}

\* C9: when a broadcast is over, every websocket that was in
\* active_connections during the whole broadcast has had exactly one
\* send_json call, whatever connect() and disconnect() calls ran meanwhile.
C9_StayedServedOnce ==
    BroadcastDone => \A ws \in stayed : Cardinality(AttemptsOn(ws)) = 1

(***************************************************************************)
(* The detector on its own: update() and detect() called directly          *)
(***************************************************************************)
\* self.anomaly_detector.update(gpu_id, metrics)
DetUpdate(gpu_id, metrics) ==
    /\ history' = update(history, gpu_id, metrics)
    /\ upd_log' = [g \in (DOMAIN upd_log) \cup {gpu_id} |->
                      IF g = gpu_id
                      THEN Append(IF g \in DOMAIN upd_log THEN upd_log[g] ELSE <<>>,
                                  metrics)
                      ELSE upd_log[g]]
    /\ last_detect' = NoDetect
    /\ UNCHANGED history_ts
    /\ UNCHANGED <<sampler_vars, coord_vars, socket_vars>>
    /\ UNCHANGED <<tick_log, thread_vars>>
    /\ UNCHANGED shutdown

\* self.anomaly_detector.detect(gpu_id)
DetDetect(gpu_id) ==
    /\ last_detect' = [gpu_id |-> gpu_id, result |-> detect(history, gpu_id),
                       again |-> last_detect.gpu_id = gpu_id]
    /\ history' = HistoryAfterDetect(history, gpu_id)
    /\ UNCHANGED <<history_ts, upd_log>>
    /\ UNCHANGED <<sampler_vars, coord_vars, socket_vars>>
    /\ UNCHANGED <<tick_log, thread_vars>>
    /\ UNCHANGED shutdown

\* a complete sample of a live device with the given fast metrics
Sample(temperature, used, total, util, power) ==
    [memory_used |-> used, memory_total |-> total, utilization_gpu |-> util,
     temperature |-> temperature, power_draw |-> power,
     driver_version |-> "535", nvidia_smi_ok |-> TRUE]

\* update() calls made so far
UpdateCount == SumSeq([i \in 1 .. Cardinality(DOMAIN upd_log) |->
                          Len(upd_log[KeysInOrder(DOMAIN upd_log)[i]])])

\* The windows: update() calls on the devices in any order; the k-th call
\* passes a sample that carries k as its utilisation, so that the samples of
\* a run are all different.
NextWindow ==
    \E gpu_id \in Devices :
        /\ UpdateCount < MaxUpdates
        /\ DetUpdate(gpu_id, Sample(70, 10, 100, UpdateCount, 100))

SpecWindow == InitWith("535") /\ [][NextWindow]_vars

\* C5: every window has at most window_size samples and is the last
\* min(n, window_size) of the n samples passed to update() for its device,
\* in call order; the windows are those of the devices updated so far (so an
\* update of one device changes no other window).
C5_WindowHoldsLatest ==
    /\ DOMAIN history = DOMAIN upd_log
    /\ \A g \in DOMAIN history :
          /\ Len(history[g]) <= WindowSize
          /\ history[g] = LastN(upd_log[g], Min(Len(upd_log[g]), WindowSize))

\* a device's window has evicted a sample while another device has a window
C5_Witness ==
    \E g, o \in DOMAIN history :
        /\ g # o
        /\ Len(upd_log[g]) > WindowSize
        /\ Len(history[g]) = WindowSize
        /\ history[o] = upd_log[o]
        /\ Len(history[o]) >= 1

(***************************************************************************)
(* detect() on the windows of one device.  The window of 'gpu_0' is drawn  *)
(* from a bounded set: its latest sample varies in every field detect()    *)
(* reads, the samples before it in utilisation and power.  'gpu_1' and     *)
(* later devices have never been updated.                                  *)
(***************************************************************************)
\* (utilization_gpu, power_draw) of the samples before the latest
OlderLoads == {<<15, 100>>, <<50, 100>>, <<50, 150>>}

\* (memory_used, memory_total) of the latest sample
MemoryReadings == {<<10, 100>>, <<90, 100>>, <<95, 100>>, <<0, 0>>}

Temperatures == {70, 74, 75, 85}

\* ecc_errors of the latest sample; -1 for a sample without the key
EccReadings == {-1, 0, 2}

\* power_error of the latest sample; "" for a sample without the key
PowerErrors == {"", "Error"}

OlderWindows ==
    UNION { [1 .. n -> { Sample(70, 10, 100, l[1], l[2]) : l \in OlderLoads }] :
            n \in 0 .. (WindowSize - 1) }

LatestSamples ==
    { LET m0 == [Sample(t, mem[1], mem[2], 50, 100)
                    EXCEPT !["driver_version"] = dv, !["nvidia_smi_ok"] = ok]
          m1 == IF ecc >= 0 THEN SetKey(m0, "ecc_errors", ecc) ELSE m0
      IN  IF pe # "" THEN SetKey(m1, "power_error", pe) ELSE m1 :
      t \in Temperatures, mem \in MemoryReadings, dv \in DriverVersions,
      ok \in BOOLEAN, ecc \in EccReadings, pe \in PowerErrors }

InitDetect ==
    /\ is_running = FALSE
    /\ data_queue = <<>>
    /\ monitor = [driver_version |-> "535", last_ecc_check |-> 0,
                  last_power_check |-> 0, last_driver_check |-> 0]
    /\ s_pc = "off"
    /\ s_metrics = <<>>
    /\ now = StartTime
    /\ active_connections = <<>>
    /\ c_pc = "startup"
    /\ data = NoData
    /\ bc_idx = 0
    /\ connection = None
    /\ pushed = <<>>
    /\ fresh = FALSE
    /\ read_since_full = FALSE
    /\ c_ticks = 0
    /\ accepted = {}
    /\ attempts = <<>>
    /\ stayed = {}
    /\ tick_updates = <<>>
    /\ history_ts = <<>>
    /\ last_detect = NoDetect
    /\ tick_log = <<>>
    /\ l_pc = "idle"
    /\ live = 0
    /\ started = 0
    /\ stop_mark = -1
    /\ shutdown = FALSE
    /\ \/ history = <<>> /\ upd_log = <<>>
       \/ \E w \in OlderWindows : \E m \in LatestSamples :
              /\ history = [g \in {0} |-> Append(w, m)]
              /\ upd_log = history

NextDetect == \E gpu_id \in Devices : DetDetect(gpu_id)

SpecDetect == InitDetect /\ [][NextDetect]_vars

\* the CRITICAL conditions of a latest sample, as the claims list them
CriticalCondition(latest) ==
    \/ "nvidia_smi_ok" \in DOMAIN latest /\ ~latest["nvidia_smi_ok"]
    \/ "power_error" \in DOMAIN latest /\ latest["power_error"] # ""
    \/ "ecc_errors" \in DOMAIN latest /\ latest["ecc_errors"] > 0
    \/ latest["temperature"] >= temp_critical
    \/ /\ latest["memory_total"] > 0
       /\ latest["memory_used"] * 100 >= memory_critical * latest["memory_total"]

\* the FLUCTUATING conditions of a window, as the claims list them
FluctuatingCondition(h) ==
    LET latest == h[Len(h)]
    IN  \/ /\ Len(h) >= 3
           /\ \/ StdAtLeast([i \in 1 .. Len(h) |-> h[i]["utilization_gpu"]],
                            util_std_warning)
              \/ StdAtLeast([i \in 1 .. Len(h) |-> h[i]["power_draw"]],
                            power_std_warning)
        \/ latest["temperature"] >= temp_warning
        \/ /\ latest["memory_total"] > 0
           /\ latest["memory_used"] * 100 >= memory_high * latest["memory_total"]

\* detect() was last called for a device with a non-empty window
DetectedWindow ==
    /\ last_detect.gpu_id \in DOMAIN history
    /\ history[last_detect.gpu_id] # <<>>

\* C10: for every non-empty window, detect() returns CRITICAL if a CRITICAL
\* condition holds on the latest sample, FLUCTUATING if none does and a
\* FLUCTUATING condition holds, and NORMAL only if neither kind holds.
C10_SeverityOrdering ==
    DetectedWindow =>
        LET h == history[last_detect.gpu_id]
            crit == CriticalCondition(h[Len(h)])
            fluct == FluctuatingCondition(h)
            status == last_detect.result.status
        IN  /\ crit => status = "CRITICAL"
            /\ (~crit /\ fluct) => status = "FLUCTUATING"
            /\ status = "NORMAL" => (~crit /\ ~fluct)

\* the latest sample of the window detect() was last called on
DetectedLatest ==
    LET h == history[last_detect.gpu_id] IN h[Len(h)]

\* C11: for every non-empty window, if nvidia_smi_ok of the latest sample
\* is false, detect() returns CRITICAL with the nvidia-smi reason alone,
\* whatever the other fields are (a zero memory_total included); otherwise,
\* if the latest sample has a power_error, it returns CRITICAL with the one
\* reason made of that field, joined with no ECC, temperature or memory reason.
C11_ShortCircuitPriority ==
    DetectedWindow =>
        LET latest == DetectedLatest
            smi_failed == "nvidia_smi_ok" \in DOMAIN latest /\ ~latest["nvidia_smi_ok"]
            power_set == "power_error" \in DOMAIN latest /\ latest["power_error"] # ""
        IN  /\ smi_failed =>
                  last_detect.result =
                      [status |-> "CRITICAL", reason |-> <<[tag |-> "nvidia_smi"]>>]
            /\ (~smi_failed /\ power_set) =>
                  last_detect.result =
                      [status |-> "CRITICAL",
                       reason |-> <<[tag |-> "power_error",
                                     text |-> latest["power_error"]]>>]

\* detect() has classified a live sample that has a power_error together
\* with ECC errors, a critical temperature and a zero memory_total
C11_Witness ==
    /\ DetectedWindow
    /\ DetectedLatest["nvidia_smi_ok"]
    /\ "power_error" \in DOMAIN DetectedLatest
    /\ "ecc_errors" \in DOMAIN DetectedLatest
    /\ DetectedLatest["ecc_errors"] > 0
    /\ DetectedLatest["temperature"] >= temp_critical
    /\ DetectedLatest["memory_total"] = 0
    /\ last_detect.result.status = "CRITICAL"
    /\ Len(last_detect.result.reason) = 1

\* everything but the temperature is normal in the window detect() was last
\* called on: the device is live, no power error, no ECC error, memory below
\* memory_normal, a driver version, and neither utilisation nor power moves
RestIsNormal ==
    LET h == history[last_detect.gpu_id]
        latest == DetectedLatest
    IN  /\ latest["nvidia_smi_ok"]
        /\ "power_error" \notin DOMAIN latest
        /\ "ecc_errors" \in DOMAIN latest => latest["ecc_errors"] = 0
        /\ latest["memory_total"] > 0
        /\ latest["memory_used"] * 100 <= memory_normal * latest["memory_total"]
        /\ latest["driver_version"] # None
        /\ \A i \in 1 .. Len(h) :
              /\ h[i]["utilization_gpu"] = latest["utilization_gpu"]
              /\ h[i]["power_draw"] = latest["power_draw"]

\* C12: with everything else normal, a latest temperature of temp_critical
\* or more gives CRITICAL, one from temp_warning up to but excluding
\* temp_critical gives FLUCTUATING, and one below temp_warning gives NORMAL.
C12_TemperatureBoundaries ==
    (DetectedWindow /\ RestIsNormal) =>
        LET t == DetectedLatest["temperature"]
            r == last_detect.result
        IN  /\ t >= temp_critical =>
                  r = [status |-> "CRITICAL",
                       reason |-> <<[tag |-> "temp_critical", n |-> t]>>]
            /\ (temp_warning <= t /\ t < temp_critical) =>
                  r = [status |-> "FLUCTUATING",
                       reason |-> <<[tag |-> "temp_warning", n |-> t]>>]
            /\ t < temp_warning => r.status = "NORMAL"

\* detect() has classified a window of three samples whose latest
\* temperature is exactly temp_warning
C12_Witness ==
    /\ DetectedWindow
    /\ RestIsNormal
    /\ Len(history[last_detect.gpu_id]) >= 3
    /\ DetectedLatest["temperature"] = temp_warning
    /\ last_detect.result.status = "FLUCTUATING"

C14_NoDataIsCritical ==
    /\ (last_detect.gpu_id \in Devices /\ last_detect.gpu_id \notin DOMAIN upd_log) =>
          /\ last_detect.result =
                 [status |-> "CRITICAL", reason |-> <<[tag |-> "no_data"]>>]
          /\ last_detect.gpu_id \notin DOMAIN history
    /\ \A g \in Devices :
          detect([x \in {g} |-> <<>>], g) =
              [status |-> "CRITICAL", reason |-> <<[tag |-> "no_data"]>>]

\* detect() was called for a device without a window while another device
\* has one
C14_Witness ==
    /\ last_detect.gpu_id \in Devices
    /\ last_detect.gpu_id \notin DOMAIN history
    /\ last_detect.result.status = "CRITICAL"
    /\ history # <<>>

(***************************************************************************)
(* The sampling thread on its own, with reads and diagnostic commands that *)
(* fail                                                                    *)
(***************************************************************************)
\* start() called on the monitor
CallStart ==
    /\ l_pc = "idle"
    /\ started < MaxStarts
    /\ \E nvml_ok \in BOOLEAN : MonitorStart(nvml_ok)
    /\ UNCHANGED <<data_queue, monitor, s_metrics, now, pushed, fresh, read_since_full>>
    /\ UNCHANGED <<tick_log, l_pc>>
    /\ UNCHANGED <<detector_vars, coord_vars, socket_vars>>
    /\ UNCHANGED shutdown

\* what pynvml and nvidia-smi answer when the read of device nread raises
\* (none for nread = DeviceCount) and the diagnostic commands either all
\* work, reporting ECC errors on every device, or all fail
SamplerAnswers(nread, diag_ok) ==
    [nread |-> nread,
     reading |-> [d \in Devices |-> NormalReading],
     smi_ok |-> [d \in Devices |-> diag_ok],
     ecc |-> IF diag_ok THEN [d \in Devices |-> EccCount] ELSE <<>>,
     power |-> "",
     driver |-> IF diag_ok THEN "535" ELSE None]

SamplerInputs ==
    { SamplerAnswers(0, TRUE) } \cup
    { SamplerAnswers(n, ok) : n \in {1, DeviceCount}, ok \in BOOLEAN }

\* seconds from one get_metrics() to the next
SamplerSleeps == {1, EccInterval}

\* the steps of the thread that runs _monitoring_loop
SamplerThread(inputs, sleeps) ==
    \/ SamplerWhile
    \/ \E inp \in inputs : SamplerGetMetrics(inp)
    \/ SamplerFull
    \/ SamplerGet
    \/ SamplerPut
    \/ \E dt \in sleeps : SamplerSleep(dt)

NextSampler ==
    \/ CallStart
    \/ SamplerThread(SamplerInputs, SamplerSleeps)

SpecSampler == InitWith("535") /\ [][NextSampler]_vars

\* the k-th get_metrics() call: what it returned and left in the monitor
TickResult(k) == get_metrics(tick_log[k].before, tick_log[k].time, tick_log[k].inp)

\* the ECC check was due at the k-th get_metrics() call
EccDue(k) == tick_log[k].time - tick_log[k].before.last_ecc_check >= EccInterval

\* _check_ecc_errors() ran in the k-th get_metrics() call
EccRan(k) == TickResult(k).last_ecc_check # tick_log[k].before.last_ecc_check

\* C15: a snapshot of a tick in which the ECC check was due, every device
\* was read and the check reported a count for every device carries
\* ecc_errors, with that count, for every device.
C15_EccForEveryDevice ==
    \A k \in 1 .. Len(pushed) :
        (/\ EccDue(k)
         /\ tick_log[k].inp.nread = DeviceCount
         /\ DOMAIN tick_log[k].inp.ecc = Devices) =>
            \A d \in Devices :
                /\ d \in DOMAIN pushed[k].metrics
                /\ "ecc_errors" \in DOMAIN pushed[k].metrics[d]
                /\ pushed[k].metrics[d]["ecc_errors"] = tick_log[k].inp.ecc[d]

\* C16: when a snapshot has ecc_errors for a device and the ECC check does
\* not run in the next tick, the next snapshot of that device has the same
\* ecc_errors, so that a sample detect() calls CRITICAL is followed by one
\* it calls CRITICAL.
C16_SlowFieldsRetained ==
    \A k \in 1 .. (Len(pushed) - 1) :
        \A d \in (DOMAIN pushed[k].metrics) \cap (DOMAIN pushed[k + 1].metrics) :
            ("ecc_errors" \in DOMAIN pushed[k].metrics[d] /\ ~EccRan(k + 1)) =>
                /\ "ecc_errors" \in DOMAIN pushed[k + 1].metrics[d]
                /\ pushed[k + 1].metrics[d]["ecc_errors"] =
                       pushed[k].metrics[d]["ecc_errors"]
                /\ detect([g \in {d} |-> <<pushed[k].metrics[d]>>], d).status = "CRITICAL"
                       => detect([g \in {d} |-> <<pushed[k + 1].metrics[d]>>], d).status
                              = "CRITICAL"

\* C17: the snapshot of a tick in which the read of one device raised has
\* an entry with the fast metrics just read for every other device.
C17_FailedReadIsolated ==
    \A k \in 1 .. Len(pushed) :
        tick_log[k].inp.nread < DeviceCount =>
            \A d \in Devices \ {tick_log[k].inp.nread} :
                /\ d \in DOMAIN pushed[k].metrics
                /\ \A f \in DOMAIN NormalReading :
                      pushed[k].metrics[d][f] = tick_log[k].inp.reading[d][f]

\* C18: every get_metrics() call of the running thread returns and is
\* followed by exactly one put, of the dict it returned with the time of the
\* tick, before the next call; the thread does not end.
C18_EveryTickPushes ==
    /\ s_pc \in {"full", "get", "put"} => Len(pushed) = Len(tick_log) - 1
    /\ s_pc \notin {"full", "get", "put"} => Len(pushed) = Len(tick_log)
    /\ \A k \in 1 .. Len(pushed) :
          pushed[k] = [ts |-> tick_log[k].time, metrics |-> TickResult(k).metrics]
    /\ s_pc # "done"
    /\ started >= 1 => is_running

\* a tick whose first read raised and a tick whose diagnostic commands all
\* failed have each been followed by another tick
C18_Witness ==
    /\ s_pc = "sleep"
    /\ \E j, k \in 1 .. (Len(pushed) - 1) :
          /\ tick_log[j].inp.nread = 0
          /\ pushed[j].metrics = <<>>
          /\ tick_log[k].inp = SamplerAnswers(DeviceCount, FALSE)
          /\ DOMAIN pushed[k].metrics = Devices

(***************************************************************************)
(* The sampling thread over ticks that are seconds, minutes or a day apart *)
(***************************************************************************)
CadenceSleeps == {1, EccInterval, PowerInterval, DriverInterval}

NextCadence ==
    \/ CallStart
    \/ SamplerThread(PipelineInputs, CadenceSleeps)

SpecCadence == InitWith("535") /\ [][NextCadence]_vars

\* the step in which the thread calls get_metrics()
GetMetricsStep == s_pc = "metrics" /\ s_pc' # "metrics"

\* C19: in every get_metrics() call each of the three checks runs (its
\* _last_*_check changes, to the time of the call) if and only if its own
\* interval has passed since its own _last_*_check, whatever the other two
\* do; a _last_*_check changes only when its own check runs.
C19_CadencesIndependent ==
    [][GetMetricsStep =>
         LET ecc_due == now - monitor.last_ecc_check >= EccInterval
             power_due == now - monitor.last_power_check >= PowerInterval
             driver_due == now - monitor.last_driver_check >= DriverInterval
         IN  /\ monitor'.last_ecc_check = IF ecc_due THEN now ELSE monitor.last_ecc_check
             /\ monitor'.last_power_check =
                    IF power_due THEN now ELSE monitor.last_power_check
             /\ monitor'.last_driver_check =
                    IF driver_due THEN now ELSE monitor.last_driver_check]_vars

(***************************************************************************)
(* start() and stop() called on the monitor, one call at a time, while the *)
(* thread runs                                                             *)
(***************************************************************************)
\* a join() that does not wait for the thread
JoinReturnsAtOnce(pc) == TRUE

\* self._monitor_thread.join() returns once _monitoring_loop has returned
JoinReturns(pc) == pc = "done"

\* stop(): self.is_running = False; if self._monitor_thread: ... (no thread
\* object before the first start(): stop() returns)
StopClear ==
    /\ l_pc = "idle"
    /\ is_running' = FALSE
    /\ IF s_pc = "off"
       THEN l_pc' = "idle" /\ stop_mark' = Len(pushed)
       ELSE l_pc' = "joining" /\ stop_mark' = stop_mark
    /\ UNCHANGED <<data_queue, monitor, s_pc, s_metrics, now, pushed, fresh, read_since_full>>
    /\ UNCHANGED <<tick_log, live, started>>
    /\ UNCHANGED <<detector_vars, coord_vars, socket_vars>>
    /\ UNCHANGED shutdown

\* stop(): self._monitor_thread.join() returns, then GPUMonitor.stop calls
\* nvmlShutdown() and returns
StopJoin ==
    /\ l_pc = "joining"
    /\ JoinReturns(s_pc)
    /\ l_pc' = "idle"
    /\ stop_mark' = Len(pushed)
    /\ UNCHANGED <<tick_log, live, started>>
    /\ UNCHANGED <<sampler_vars, detector_vars, coord_vars, socket_vars>>
    /\ UNCHANGED shutdown

NextLifecycle ==
    \/ CallStart
    \/ StopClear
    \/ StopJoin
    \/ SamplerThread(PipelineInputs, {1})

\* The thread is scheduled, its sleep and its commands (timeout=10) return,
\* and a join() whose thread has ended returns.
SpecLifecycle ==
    /\ InitWith("535")
    /\ [][NextLifecycle]_vars
    /\ WF_vars(SamplerThread(PipelineInputs, {1}))
    /\ WF_vars(StopJoin)

\* at most one thread runs _monitoring_loop, and from the return of stop()
\* to the next thread start() creates no thread is left and nothing is put
StoppedIsQuiet ==
    /\ live = (IF s_pc \in {"off", "done"} THEN 0 ELSE 1)
    /\ stop_mark # -1 =>
          /\ Len(pushed) = stop_mark
          /\ s_pc \in {"off", "done"}
          /\ ~is_running

\* C20: once stop() waits in join(), the loop ends and stop() returns; from
\* then on nothing is put until a later start() creates a thread, and that
\* thread is the only one running.
C20_StopTerminates ==
    /\ []StoppedIsQuiet
    /\ (l_pc = "joining") ~> (l_pc = "idle" /\ s_pc = "done")
    /\ [][started' # started => (live = 0 /\ live' = 1 /\ started' = started + 1)]_vars

\* a second thread was started after a stop(), has put snapshots and was
\* stopped in turn
C20_Witness ==
    /\ started = 2
    /\ l_pc = "idle"
    /\ s_pc = "done"
    /\ stop_mark = Len(pushed)
    /\ Len(pushed) >= 2
    /\ pushed[Len(pushed)].ts > pushed[1].ts

(***************************************************************************)
(* The service with its shutdown event                                     *)
(***************************************************************************)
\* @app.on_event("shutdown"): pynvml.nvmlShutdown() inside try/except, and
\* nothing else; it runs on the event loop once the application has started
ShutdownEvent ==
    /\ c_pc # "startup"
    /\ CoordSuspended
    /\ ~shutdown
    /\ shutdown' = TRUE
    /\ UNCHANGED <<tick_log, thread_vars>>
    /\ UNCHANGED <<sampler_vars, detector_vars, coord_vars, socket_vars>>

NextService ==
    \/ Next
    \/ ShutdownEvent

SpecService == Init /\ [][NextService]_vars

\* C21: once shutdown_event() has run, the monitor has been told to stop
\* (is_running is false) and the start_monitoring task is no longer in its
\* loop.
C21_ShutdownStopsBoth ==
    shutdown => (~is_running /\ c_pc \notin {"tick", "iter", "send", "sleep"})

(***************************************************************************)
(* Order of the samples in the windows of the running service              *)
(***************************************************************************)
\* C22: every window has one snapshot timestamp per sample, and these
\* timestamps never decrease from the oldest sample of the window to the
\* newest, whatever puts, evictions and reads came in between.
C22_WindowTimestampsOrdered ==
    /\ DOMAIN history_ts = DOMAIN history
    /\ \A g \in DOMAIN history :
          /\ Len(history_ts[g]) = Len(history[g])
          /\ \A i, j \in 1 .. Len(history_ts[g]) :
                i <= j => history_ts[g][i] <= history_ts[g][j]

\* a window holds samples of two different snapshots, the newer of which
\* was put after the queue had evicted the first snapshot
C22_Witness ==
    /\ Len(pushed) > BufferSize
    /\ \E g \in DOMAIN history_ts :
          /\ Len(history_ts[g]) >= 2
          /\ history_ts[g][1] < history_ts[g][2]
          /\ history_ts[g][2] > pushed[BufferSize].ts

(***************************************************************************)
(* detect() on samples without a driver version                            *)
(***************************************************************************)
\* C23: for a window that meets no CRITICAL and no FLUCTUATING condition
\* and whose latest sample has driver_version None (memory_total above
\* zero), detect() returns NORMAL with a reason that has no driver tag.
C23_UnknownDriverTolerated ==
    (/\ DetectedWindow
     /\ DetectedLatest["driver_version"] = None
     /\ DetectedLatest["memory_total"] > 0
     /\ ~CriticalCondition(DetectedLatest)
     /\ ~FluctuatingCondition(history[last_detect.gpu_id])) =>
        /\ last_detect.result.status = "NORMAL"
        /\ \A i \in 1 .. Len(last_detect.result.reason) :
              last_detect.result.reason[i].tag # "driver"

(***************************************************************************)
(* The fluctuation warnings of detect()                                    *)
(***************************************************************************)
\* the reason detect() last returned has a part with this tag
ReasonHas(tag) ==
    \E i \in 1 .. Len(last_detect.result.reason) :
        last_detect.result.reason[i].tag = tag

\* C24: for every non-empty window with no CRITICAL condition, detect()
\* flags the utilisation (the power) fluctuation exactly when the window
\* has three samples or more and the population standard deviation of
\* utilization_gpu (power_draw) over the window is at least
\* util_std_warning (power_std_warning), and then returns FLUCTUATING; so a
\* window of one or two samples is never flagged.
C24_FluctuationNeedsThree ==
    (DetectedWindow /\ ~CriticalCondition(DetectedLatest)) =>
        LET h == history[last_detect.gpu_id]
            utils == [i \in 1 .. Len(h) |-> h[i]["utilization_gpu"]]
            powers == [i \in 1 .. Len(h) |-> h[i]["power_draw"]]
        IN  /\ ReasonHas("util_std") <=>
                  (Len(h) >= 3 /\ StdAtLeast(utils, util_std_warning))
            /\ ReasonHas("power_std") <=>
                  (Len(h) >= 3 /\ StdAtLeast(powers, power_std_warning))
            /\ (ReasonHas("util_std") \/ ReasonHas("power_std")) =>
                  last_detect.result.status = "FLUCTUATING"

(***************************************************************************)
(* The driver version in the snapshots of the sampling thread              *)
(***************************************************************************)
\* _get_driver_version() ran and failed in the k-th get_metrics() call
DriverCheckFailed(k) ==
    /\ tick_log[k].time - tick_log[k].before.last_driver_check >= DriverInterval
    /\ tick_log[k].inp.nread >= 1
    /\ tick_log[k].inp.driver = None

\* C25: when a driver version is known and the driver check of a tick runs
\* and fails, every device of that tick's snapshot carries the version known
\* before, and the monitor still knows it for the ticks that follow.
C25_StaleDriverKept ==
    \A k \in 1 .. Len(pushed) :
        (tick_log[k].before.driver_version # None /\ DriverCheckFailed(k)) =>
            /\ \A d \in DOMAIN pushed[k].metrics :
                  pushed[k].metrics[d]["driver_version"] =
                      tick_log[k].before.driver_version
            /\ TickResult(k).driver_version = tick_log[k].before.driver_version

(***************************************************************************)
(* The liveness command of the sampling thread                             *)
(***************************************************************************)
\* how a subprocess.run(command, shell=True, timeout=10) ends: the shell
\* exits with status 0, exits with another status (124 or 137 from the
\* `timeout -k 5s 5s` wrapper included), is still running after 10 s
\* (TimeoutExpired), or cannot be launched (another exception)
CommandOutcomes == {"exit0", "nonzero", "timeout", "oserror"}

\* _run_command(command): (True, stdout) whenever subprocess.run returns (no
\* check=True and returncode is not read), (False, "") when it raises
run_command(outcome, stdout) ==
    IF outcome \in {"exit0", "nonzero"}
    THEN [success |-> TRUE, output |-> stdout]
    ELSE [success |-> FALSE, output |-> ""]

\* _check_nvidia_smi_hang(): the success of `timeout -k 5s 5s nvidia-smi`
check_nvidia_smi_hang(outcome) == run_command(outcome, "")["success"]

\* every device is read, no check reports an error, and the liveness command
\* of the tick ends as smi_outcome says
LivenessAnswers(outcome) ==
    [nread |-> DeviceCount,
     reading |-> [d \in Devices |-> NormalReading],
     smi_ok |-> [d \in Devices |-> check_nvidia_smi_hang(outcome)],
     ecc |-> [d \in Devices |-> 0],
     power |-> "",
     driver |-> "535",
     smi_outcome |-> outcome]

LivenessInputs == { LivenessAnswers(outcome) : outcome \in CommandOutcomes }

NextLiveness ==
    \/ CallStart
    \/ SamplerThread(LivenessInputs, {1})

SpecLiveness == InitWith("535") /\ [][NextLiveness]_vars

\* C26: in every snapshot, nvidia_smi_ok of a device is true exactly when
\* the liveness command of that tick exited with status 0: it is false
\* when the command exited with another status, timed out or was not
\* launched.
C26_FlagReflectsCommand ==
    \A k \in 1 .. Len(pushed) :
        \A d \in DOMAIN pushed[k].metrics :
            pushed[k].metrics[d]["nvidia_smi_ok"] =
                (tick_log[k].inp.smi_outcome = "exit0")

====
